---- MODULE Spec2Model ----
(***************************************************************************)
(* A model of mfs.c (lines 1..691, the finished program of the file; the   *)
(* text after line 692 is two earlier drafts of the same program).        *)
(*                                                                         *)
(* The program is a prompt loop over one FAT32 image.  Its state is the    *)
(* image handle fp, the struct f32info (geometry and originalFilenames),   *)
(* the 16-entry directory cache dir, and the files on the host.  One       *)
(* action models one pass of the loop of main() for one command line.      *)
(*                                                                         *)
(* Characters and bytes are numbers 0..255; a token is the sequence of its *)
(* character codes.  A command line is the sequence of the fields that     *)
(* strsep() cuts it into at every whitespace character, the empty field    *)
(* after the final newline included.  Lines are newline-terminated and     *)
(* shorter than MAX_COMMAND_SIZE.  Images have 512-byte sectors, so that   *)
(* the 16 x 32 bytes the program reads and writes as a directory are one   *)
(* sector, and every offset LBAToOffset yields is sector-aligned.          *)
(***************************************************************************)
EXTENDS Integers, Sequences, FiniteSets, TLC

MAX_NUM_ARGUMENTS == 5

NULL == <<>>

\* ------------------------------------------------------------------------
\* Verbs, as main() spells them in its strcmp chain.
V_open  == <<111, 112, 101, 110>>
V_close == <<99, 108, 111, 115, 101>>
V_quit  == <<113, 117, 105, 116>>
V_exit  == <<101, 120, 105, 116>>
V_info  == <<105, 110, 102, 111>>
V_stat  == <<115, 116, 97, 116>>
V_ls    == <<108, 115>>
V_cd    == <<99, 100>>
V_get   == <<103, 101, 116>>
V_read  == <<114, 101, 97, 100>>
V_del   == <<100, 101, 108>>
V_undel == <<117, 110, 100, 101, 108>>

\* The messages of the program, as printf writes them.
MsgImageNotFound == "Error: File system image not found.\n"
MsgFilenameNotGiven == "Error: Filename not given.\n"
MsgAlreadyOpen == "Error: File system image is already open.\n"
MsgNotOpen == "Error: File system not open.\n"
MsgOpenFirst == "Error: File system image must be opened first.\n"
MsgFileNotFound == "Error: File not found. \n"
MsgNotADirectory == "Error: Entry is not a directory. \n"
MsgNotEnoughArgs == "Error: Not enough arguments. (%d arguments given)\n"
MsgUnknown == "Error: Unknown command.\n"

\* One printf: its format and the bytes or numbers it formats.
Line(fmt, args) == [text |-> fmt, bytes |-> args]

\* ------------------------------------------------------------------------
\* C strings.

Min(a, b) == IF a < b THEN a ELSE b

\* The bytes of s before its first NUL: what strlen and %s see.
CStr(s) ==
    LET nuls == {k \in 1..Len(s) : s[k] = 0}
    IN  IF nuls = {} THEN s
        ELSE SubSeq(s, 1, (CHOOSE k \in nuls : \A j \in nuls : k <= j) - 1)

\* strncpy(dst, src, n) for a fresh dst: n bytes, src's string then NULs.
strncpy(src, n) ==
    LET c == CStr(src)
    IN  [k \in 1..n |-> IF k <= Len(c) THEN c[k] ELSE 0]

\* strncmp(a, b, n) == 0: equal up to n bytes or up to a NUL in both.
strncmpEq(a, b, n) ==
    \A k \in 1..n :
        (\A j \in 1..(k - 1) : a[j] # 0) => a[k] = b[k]

toupper(c) == IF c >= 97 /\ c <= 122 THEN c - 32 ELSE c

\* ------------------------------------------------------------------------
\* compare_filename (lines 183..232).

\* strtok( s, "." ): the first index at or after i that holds no '.', and the
\* first at or after i that holds one; Len(s) + 1 when there is none.
SkipDelim(s, i) ==
    LET ks == {k \in i..Len(s) : s[k] # 46}
    IN  IF ks = {} THEN Len(s) + 1 ELSE CHOOSE k \in ks : \A j \in ks : k <= j

FindDelim(s, i) ==
    LET ks == {k \in i..Len(s) : s[k] = 46}
    IN  IF ks = {} THEN Len(s) + 1 ELSE CHOOSE k \in ks : \A j \in ks : k <= j

\* The token strtok returns when it starts scanning s at index i; NULL (the
\* empty sequence: strtok never returns an empty token) when only
\* delimiters are left.
strtokFrom(s, i) ==
    LET b == SkipDelim(s, i)
    IN  SubSeq(s, b, FindDelim(s, b) - 1)

\* Where the next strtok( NULL, "." ) starts: behind the delimiter that ended
\* the token, or at the end of the string.
strtokRest(s, i) == Min(FindDelim(s, SkipDelim(s, i)) + 1, Len(s) + 1)

\* input_name holds 12 bytes: a longer input overruns it (line 187), and one
\* of exactly 12 leaves it without its NUL for strtok (line 204).
InputOverruns(input) == Len(input) >= 12

\* Line 189: the first two bytes of the input are "..".
BeginsDotDot(input) == Len(input) >= 2 /\ input[1] = 46 /\ input[2] = 46

\* Line 206: strlen( token ) with token == NULL, when strtok finds nothing
\* but dots in an input that does not begin with "..".
DerefsNull(input) == ~BeginsDotDot(input) /\ strtokFrom(input, 1) = NULL

\* expanded_name[0..10] as line 223 compares it (lines 201..221).
expanded_name(input) ==
    LET base == strtokFrom(input, 1)
        ext  == strtokFrom(input, strtokRest(input, 1))
        e3   == strncpy(ext, 3)
        raw  == [k \in 1..11 |->
                   IF ext # NULL /\ k >= 9 THEN e3[k - 8]
                   ELSE IF k <= Len(base) THEN base[k]
                   ELSE 32]
    IN  [k \in 1..11 |-> toupper(raw[k])]

compare_filename(input, IMG_Name) ==
    IF BeginsDotDot(input)
    THEN strncmpEq(SubSeq(input, 1, 2), IMG_Name, 2)
    ELSE strncmpEq(expanded_name(input), IMG_Name, 11)

\* A find_file that returns 0 when nothing matches.
find_file_m(filename, d) ==
    LET hits == {i \in 0..15 : compare_filename(filename, d[i + 1].DIR_Name)}
    IN  IF hits = {} THEN 0 ELSE CHOOSE i \in hits : \A j \in hits : i <= j

\* find_file (lines 240..255): the lowest matching index, or -1.
find_file(filename, d) ==
    LET hits == {i \in 0..15 : compare_filename(filename, d[i + 1].DIR_Name)}
    IN  IF hits = {} THEN -1 ELSE CHOOSE i \in hits : \A j \in hits : i <= j

\* ------------------------------------------------------------------------
\* struct DirectoryEntry (lines 45..54): 32 packed bytes.

Zeros(n) == [k \in 1..n |-> 0]

DirectoryEntry(name, attr, low, size) ==
    [DIR_Name |-> name, DIR_Attr |-> attr, Unused1 |-> Zeros(8),
     DIR_FirstClusterHigh |-> 0, Unused2 |-> Zeros(4),
     DIR_FirstClusterLow |-> low, DIR_FileSize |-> size]

FreeEntry == DirectoryEntry(Zeros(11), 0, 0, 0)

\* A 512-byte sector seen as the 16 records fread( &dir[ 0 ], 32, 16, fp )
\* makes of it, the last slots free.
Block(entries) ==
    [k \in 1..16 |-> IF k <= Len(entries) THEN entries[k] ELSE FreeEntry]

\* A sector of file content: 16 records whose bytes are a pattern of the
\* cluster number.
DataBlock(c) ==
    [k \in 1..16 |->
        [DIR_Name |-> [j \in 1..11 |-> 65 + ((c + k + j) % 26)],
         DIR_Attr |-> 97 + c, Unused1 |-> [j \in 1..8 |-> 48 + ((k + j) % 10)],
         DIR_FirstClusterHigh |-> c, Unused2 |-> [j \in 1..4 |-> 97 + j],
         DIR_FirstClusterLow |-> k, DIR_FileSize |-> c * 256 + k]]

\* ------------------------------------------------------------------------
\* The image files of the host.  An image is its BPB fields (as the bytes of
\* the boot sector hold them), its FAT (the 32-bit entry of each cluster) and
\* its data region, one 512-byte sector per cluster number from 2 to
\* lastCluster; sectors-per-cluster is 1.  sectors holds the sectors that are
\* directories or have been written; every other sector of the data region
\* is file content, DataBlock of its cluster number.

\* "fat32.img": root directory in cluster 2, a subdirectory in cluster 6;
\* FOO.TXT is the chain 4 -> 5, every other file one cluster.
ImageA ==
    [BPB_BytsPerSec |-> 512, BPB_SecPerClus |-> 1, BPB_RsvdSecCnt |-> 2,
     BPB_NumFATS |-> 2, BPB_RootEntCnt |-> 0, BPB_FATSz32 |-> 1,
     BPB_RootClus |-> 2,
     fat  |-> [c \in 0..8 |-> IF c = 4 THEN 5 ELSE 268435455],
     lastCluster |-> 8,
     sectors |-> [c \in {2, 6} |->
        IF c = 2
        THEN Block(<<
                \* "FOO     TXT", "BAR     C  ", "SUBDIR     " (with a
                \* DIR_FirstClusterHigh of 1), "ABCDEFGHIJ "
                DirectoryEntry(<<70, 79, 79, 32, 32, 32, 32, 32, 84, 88, 84>>, 32, 4, 600),
                DirectoryEntry(<<66, 65, 82, 32, 32, 32, 32, 32, 67, 32, 32>>, 32, 3, 100),
                [DirectoryEntry(<<83, 85, 66, 68, 73, 82, 32, 32, 32, 32, 32>>, 16, 6, 0)
                    EXCEPT !.DIR_FirstClusterHigh = 1],
                DirectoryEntry(<<65, 66, 67, 68, 69, 70, 71, 72, 73, 74, 32>>, 32, 0, 0),
                \* "RO      BIN" read-only, "VOLUME     " volume id,
                \* "HIDDEN  TXT" hidden archive, a deleted "?OO     TXT",
                \* "MIXED      " archive and directory, "RODIR      "
                \* read-only and directory
                DirectoryEntry(<<82, 79, 32, 32, 32, 32, 32, 32, 66, 73, 78>>, 1, 8, 10),
                DirectoryEntry(<<86, 79, 76, 85, 77, 69, 32, 32, 32, 32, 32>>, 8, 0, 0),
                DirectoryEntry(<<72, 73, 68, 68, 69, 78, 32, 32, 84, 88, 84>>, 34, 3, 100),
                DirectoryEntry(<<229, 79, 79, 32, 32, 32, 32, 32, 84, 88, 84>>, 32, 3, 5),
                DirectoryEntry(<<77, 73, 88, 69, 68, 32, 32, 32, 32, 32, 32>>, 48, 6, 0),
                DirectoryEntry(<<82, 79, 68, 73, 82, 32, 32, 32, 32, 32, 32>>, 17, 6, 0)>>)
        ELSE Block(<<
                \* ".          ", "..         ", "INNER   TXT" hidden archive,
                \* a second "INNER   TXT"
                DirectoryEntry(<<46, 32, 32, 32, 32, 32, 32, 32, 32, 32, 32>>, 16, 6, 0),
                DirectoryEntry(<<46, 46, 32, 32, 32, 32, 32, 32, 32, 32, 32>>, 16, 0, 0),
                DirectoryEntry(<<73, 78, 78, 69, 82, 32, 32, 32, 84, 88, 84>>, 34, 7, 10),
                DirectoryEntry(<<73, 78, 78, 69, 82, 32, 32, 32, 84, 88, 84>>, 32, 8, 3)>>)]]

\* "alt.img": another geometry; the root, in cluster 3, starts with the
\* volume label.
ImageB ==
    [BPB_BytsPerSec |-> 512, BPB_SecPerClus |-> 1, BPB_RsvdSecCnt |-> 1,
     BPB_NumFATS |-> 1, BPB_RootEntCnt |-> 0, BPB_FATSz32 |-> 1,
     BPB_RootClus |-> 3,
     fat  |-> [c \in 0..4 |-> 268435455],
     lastCluster |-> 4,
     sectors |-> [c \in {3} |->
        Block(<<
                \* "VOLUME     ", "README  TXT", "NOTES      "
                DirectoryEntry(<<86, 79, 76, 85, 77, 69, 32, 32, 32, 32, 32>>, 8, 0, 0),
                DirectoryEntry(<<82, 69, 65, 68, 77, 69, 32, 32, 84, 88, 84>>, 32, 4, 20),
                DirectoryEntry(<<78, 79, 84, 69, 83, 32, 32, 32, 32, 32, 32>>, 32, 2, 7)>>)]]

\* The sector of cluster number c of an image.
Sector(img, c) == IF c \in DOMAIN img.sectors THEN img.sectors[c] ELSE DataBlock(c)

\* The paths the user names: "fat32.img", "alt.img", and "missing.img",
\* which is no file.
P_fat32   == <<102, 97, 116, 51, 50, 46, 105, 109, 103>>
P_alt     == <<97, 108, 116, 46, 105, 109, 103>>
P_missing == <<109, 105, 115, 115, 105, 110, 103, 46, 105, 109, 103>>

InitialDisk == (P_fat32 :> ImageA) @@ (P_alt :> ImageB)

\* ------------------------------------------------------------------------
\* The state of the program and of the host.

VARIABLES
    fp,         \* main's FILE *fp: NULL, or the path of the open image
    fat32,      \* struct f32info: BPB fields and originalFilenames
    dir,        \* struct DirectoryEntry dir[ 16 ], the directory cache
    disk,       \* the image files of the host, by path
    host,       \* the host files the last command wrote, by name
    streams,    \* the FILE streams that are open, by path
    pc,         \* "prompt", "exited" or "crashed"
    exitStatus, \* the argument of exit(), -1 while the program runs
    cmd,        \* the fields of the command line last read
    out,        \* what the last command printed, one record per printf
    io,         \* the reads and writes of the image by the last command
    prevDir     \* the directory cache as the last command found it

vars ==
    <<fp, fat32, dir, disk, host, streams, pc, exitStatus, cmd, out, io, prevDir>>

\* Two's complement values of the int8_t and int16_t fields of struct
\* f32info; the images keep the 32-bit fields below 2^31.
Signed(x, bits) == IF x >= 2 ^ (bits - 1) THEN x - 2 ^ bits ELSE x

\* LBAToOffset (lines 83..86).
LBAToOffset(sector, f32) ==
    ((sector - 2) * f32.BPB_BytsPerSec)
    + (f32.BPB_BytsPerSec * f32.BPB_RsvdSecCnt)
    + (f32.BPB_NumFATS * f32.BPB_FATSz32 * f32.BPB_BytsPerSec)

\* A rootOffset that takes the root directory to be cluster 2.
rootOffset_m(f32) == LBAToOffset(2, f32)

\* The local rootOffset of openFat32File, del and undel (lines 150, 386 and
\* 417).
rootOffset(f32) == LBAToOffset(f32.BPB_RootClus, f32)

\* Where the data region of an image file starts, and the cluster number
\* whose sector starts at a byte offset of the file.
DataStart(img) ==
    (img.BPB_RsvdSecCnt + img.BPB_NumFATS * img.BPB_FATSz32) * img.BPB_BytsPerSec

SectorAt(img, off) == ((off - DataStart(img)) \div img.BPB_BytsPerSec) + 2

InData(img, off) ==
    /\ off >= DataStart(img)
    /\ (off - DataStart(img)) % img.BPB_BytsPerSec = 0
    /\ SectorAt(img, off) <= img.lastCluster

\* An fread that stores nothing.
ReadDir_m(img, off, old) == old

\* fseek( fp, off, SEEK_SET ); fread( &dir[ 0 ], 32, 16, fp ): the sector at
\* off; at the end of the file fread reads nothing and dir keeps its bytes.
ReadDir(img, off, old) ==
    IF InData(img, off) THEN Sector(img, SectorAt(img, off)) ELSE old

\* A write that never reaches the file.
WriteDir_m(img, off, d) == img

\* A write that lands one sector behind off.
WriteDir_next(img, off, d) ==
    [img EXCEPT
        !.sectors = [c \in DOMAIN img.sectors \cup {SectorAt(img, off) + 1} |->
                        IF c = SectorAt(img, off) + 1 THEN d ELSE img.sectors[c]]]

\* fseek( fp, off, SEEK_SET ); fwrite( &dir[ 0 ], 32, 16, fp ).
WriteDir(img, off, d) ==
    [img EXCEPT
        !.sectors = [c \in DOMAIN img.sectors \cup {SectorAt(img, off)} |->
                        IF c = SectorAt(img, off) THEN d ELSE img.sectors[c]],
        !.lastCluster = IF SectorAt(img, off) > @ THEN SectorAt(img, off) ELSE @]

IoRead(off, n)  == [op |-> "fread", off |-> off, n |-> n]
IoWrite(off, n) == [op |-> "fwrite", off |-> off, n |-> n]

\* openFat32File, lines 119..148: the BPB fields read from the boot sector.
ReadBPB(img, f32) ==
    [f32 EXCEPT
        !.BPB_BytsPerSec = Signed(img.BPB_BytsPerSec, 16),
        !.BPB_SecPerClus = Signed(img.BPB_SecPerClus, 8),
        !.BPB_RsvdSecCnt = Signed(img.BPB_RsvdSecCnt, 16),
        !.BPB_NumFATS    = Signed(img.BPB_NumFATS, 8),
        !.BPB_RootEntCnt = Signed(img.BPB_RootEntCnt, 16),
        !.BPB_FATSz32    = img.BPB_FATSz32,
        !.BPB_RootClus   = img.BPB_RootClus]

BPBReads ==
    <<IoRead(3, 8), IoRead(11, 2), IoRead(13, 1), IoRead(14, 2), IoRead(16, 1),
      IoRead(17, 2), IoRead(71, 11), IoRead(36, 4), IoRead(44, 4)>>

\* openFat32File, lines 155..159: every slot gets the name of dir[ 0 ].
CaptureNames(d) == [i \in 0..15 |-> strncpy(d[1].DIR_Name, 11)]

\* What malloc may hand main for *fat32 and dir before the first open: bytes
\* that are all b.
GarbageF32(b) ==
    [BPB_BytsPerSec |-> b, BPB_SecPerClus |-> b, BPB_RsvdSecCnt |-> b,
      BPB_NumFATS |-> b, BPB_RootEntCnt |-> b, BPB_FATSz32 |-> b,
      BPB_RootClus |-> b, originalFilenames |-> [i \in 0..15 |-> [k \in 1..11 |-> b]]]

GarbageDir(b) == [k \in 1..16 |-> DirectoryEntry([j \in 1..11 |-> b], b, b, b)]

\* ------------------------------------------------------------------------
\* main (lines 527..691): the tokens of a line and the branch it takes.

\* Lines 566..575: token[ k ] for k < token_count, an empty field as NULL.
\* A newline-terminated line has two fields or more, and main reads
\* token[ 2 ] and token[ 3 ] only when token_count is 5, so it reads no
\* slot that this loop has not set.
token_count(line) == Min(Len(line), MAX_NUM_ARGUMENTS)

token(line, k) == IF k < token_count(line) THEN line[k + 1] ELSE NULL

\* The chain without the test of line 626.
Branch_m(line, f) ==
    CASE token(line, 0) = NULL -> "blank"
      [] token(line, 0) = V_open -> "open"
      [] token(line, 0) = V_close -> "close"
      [] token(line, 0) \in {V_quit, V_exit} -> "quit"
      [] token(line, 0) = V_info -> "info"
      [] token(line, 0) = V_stat -> "stat"
      [] token(line, 0) = V_get -> "get"
      [] token(line, 0) = V_cd -> "cd"
      [] token(line, 0) = V_ls -> "ls"
      [] token(line, 0) = V_read -> "read"
      [] token(line, 0) = V_del -> "del"
      [] token(line, 0) = V_undel -> "undel"
      [] OTHER -> "unknown"

\* The if / else-if chain of lines 579..685.
Branch(line, f) ==
    CASE token(line, 0) = NULL -> "blank"
      [] token(line, 0) = V_open -> "open"
      [] token(line, 0) = V_close -> "close"
      [] token(line, 0) \in {V_quit, V_exit} -> "quit"
      [] f = NULL -> "closed"
      [] token(line, 0) = V_info -> "info"
      [] token(line, 0) = V_stat -> "stat"
      [] token(line, 0) = V_get -> "get"
      [] token(line, 0) = V_cd -> "cd"
      [] token(line, 0) = V_ls -> "ls"
      [] token(line, 0) = V_read -> "read"
      [] token(line, 0) = V_del -> "del"
      [] token(line, 0) = V_undel -> "undel"
      [] OTHER -> "unknown"

\* A pass of the loop that only prints: nothing of the program changes and
\* no host file is written.
Prints(line, lines) ==
    /\ cmd' = line
    /\ out' = lines
    /\ io' = <<>>
    /\ prevDir' = dir
    /\ host' = <<>>
    /\ UNCHANGED <<fp, fat32, dir, disk, streams, pc, exitStatus>>

\* The process dies of a signal inside the command.
Crashes(line) ==
    /\ cmd' = line
    /\ out' = <<>>
    /\ io' = <<>>
    /\ prevDir' = dir
    /\ pc' = "crashed"
    /\ host' = <<>>
    /\ UNCHANGED <<fp, fat32, dir, disk, streams, exitStatus>>

\* An fclose that leaves the stream open.
fclose_m(strs, f) == strs

\* fclose( fp ) (lines 605 and 619): the streams that stay open.
fclose(strs, f) == strs \ {f}

\* Lines 579..580.
Blank(line) ==
    /\ pc = "prompt"
    /\ Branch(line, fp) = "blank"
    /\ Prints(line, <<>>)

\* A failed fopen that is reported but whose handle main keeps.
FopenFails_m(line) ==
    /\ fp' = token(line, 1)
    /\ cmd' = line
    /\ out' = <<Line(MsgImageNotFound, <<>>)>>
    /\ io' = <<>>
    /\ prevDir' = dir
    /\ host' = <<>>
    /\ UNCHANGED <<fat32, dir, disk, streams, pc, exitStatus>>

\* openFat32File, lines 109..116: fopen fails, NULL goes back to main.
FopenFails(line) == Prints(line, <<Line(MsgImageNotFound, <<>>)>>)

\* openFat32File, lines 118..160: the BPB and the root directory are read,
\* the names captured, and main takes the stream as fp (line 591).
Opens(line) ==
    LET path == token(line, 1)
        img  == disk[path]
        f32  == ReadBPB(img, fat32)
        d    == ReadDir(img, rootOffset(f32), dir)
    IN  /\ fp' = path
        /\ streams' = streams \cup {path}
        /\ dir' = d
        /\ fat32' = [f32 EXCEPT !.originalFilenames = CaptureNames(d)]
        /\ cmd' = line
        /\ out' = <<>>
        /\ io' = BPBReads \o <<IoRead(rootOffset(f32), 512)>>
        /\ prevDir' = dir
        /\ host' = <<>>
        /\ UNCHANGED <<disk, pc, exitStatus>>

\* An open that does not look at fp before it opens.
Open_m(line) ==
    /\ pc = "prompt"
    /\ Branch(line, fp) = "open"
    /\ IF token(line, 1) = NULL
       THEN Prints(line, <<Line(MsgFilenameNotGiven, <<>>)>>)
       ELSE IF token(line, 1) \notin DOMAIN disk THEN FopenFails(line)
       ELSE Opens(line)

\* Lines 586..595 and openFat32File (lines 107..161).
Open(line) ==
    /\ pc = "prompt"
    /\ Branch(line, fp) = "open"
    /\ IF fp # NULL THEN Prints(line, <<Line(MsgAlreadyOpen, <<>>)>>)
       ELSE IF token(line, 1) = NULL
            THEN Prints(line, <<Line(MsgFilenameNotGiven, <<>>)>>)
       ELSE IF token(line, 1) \notin DOMAIN disk THEN FopenFails(line)
       ELSE Opens(line)

\* A close that closes the stream and keeps the handle.
Close_m(line) ==
    /\ pc = "prompt"
    /\ Branch(line, fp) = "close"
    /\ IF fp # NULL
       THEN /\ streams' = fclose(streams, fp)
            /\ cmd' = line
            /\ out' = <<>>
            /\ io' = <<>>
            /\ prevDir' = dir
            /\ host' = <<>>
            /\ UNCHANGED <<fp, fat32, dir, disk, pc, exitStatus>>
       ELSE Prints(line, <<Line(MsgNotOpen, <<>>)>>)

\* Lines 601..612.
Close(line) ==
    /\ pc = "prompt"
    /\ Branch(line, fp) = "close"
    /\ IF fp # NULL
       THEN /\ streams' = fclose(streams, fp)
            /\ fp' = NULL
            /\ cmd' = line
            /\ out' = <<>>
            /\ io' = <<>>
            /\ prevDir' = dir
            /\ host' = <<>>
            /\ UNCHANGED <<fat32, dir, disk, pc, exitStatus>>
       ELSE Prints(line, <<Line(MsgNotOpen, <<>>)>>)

\* Lines 615..623.
Quit(line) ==
    /\ pc = "prompt"
    /\ Branch(line, fp) = "quit"
    /\ streams' = IF fp # NULL THEN fclose(streams, fp) ELSE streams
    /\ pc' = "exited"
    /\ exitStatus' = 0
    /\ cmd' = line
    /\ out' = <<>>
    /\ io' = <<>>
    /\ prevDir' = dir
    /\ host' = <<>>
    /\ UNCHANGED <<fp, fat32, dir, disk>>

\* Line 626.
MustOpenFirst(line) ==
    /\ pc = "prompt"
    /\ Branch(line, fp) = "closed"
    /\ Prints(line, <<Line(MsgOpenFirst, <<>>)>>)

\* A chain that ends without its else.
Unknown_m(line) ==
    /\ pc = "prompt"
    /\ Branch(line, fp) = "unknown"
    /\ Prints(line, <<>>)

\* Line 685.
Unknown(line) ==
    /\ pc = "prompt"
    /\ Branch(line, fp) = "unknown"
    /\ Prints(line, <<Line(MsgUnknown, <<>>)>>)

\* ------------------------------------------------------------------------
\* The verbs of an open image.

\* What find_file can return to a verb, SEGV standing for the process dying
\* in it.  strlen( NULL ) (lines 187 and 206) kills the process.  An input
\* of 12 bytes or more is undefined behaviour in compare_filename: the
\* build decides whether the process dies or which result comes back.
SEGV == -2

FindOutcomes(filename, d) ==
    IF filename = NULL \/ (~InputOverruns(filename) /\ DerefsNull(filename))
    THEN {SEGV}
    ELSE IF InputOverruns(filename) THEN {SEGV} \cup (-1..15)
    ELSE {find_file(filename, d)}

\* An attribute test by the bits 0x01, 0x10 and 0x20.
Listable_m(e) == e.DIR_Attr % 2 = 1 \/ (e.DIR_Attr \div 16) % 4 # 0

\* The attribute test of ls and undel (lines 307 and 407).
Listable(e) == e.DIR_Attr \in {1, 16, 32}

\* printFat32Info (lines 168..175).
printFat32Info(f32) ==
    <<Line("--BPB_BytsPerSec:      hex: %-#10x  base10: %d\n", <<f32.BPB_BytsPerSec>>),
      Line("--BPB_SecPerClus:      hex: %-#10x  base10: %d\n", <<f32.BPB_SecPerClus>>),
      Line("--BPB_RsvdSecCnt:      hex: %-#10x  base10: %d\n", <<f32.BPB_RsvdSecCnt>>),
      Line("--BPB_NumFATS:         hex: %-#10x  base10: %d\n", <<f32.BPB_NumFATS>>),
      Line("--BPB_FATSz32:         hex: %-#10x  base10: %d\n", <<f32.BPB_FATSz32>>)>>

\* Line 629.
Info(line) ==
    /\ pc = "prompt"
    /\ Branch(line, fp) = "info"
    /\ Prints(line, printFat32Info(fat32))

\* What stat prints of a found entry (lines 277..284).
statLines(e) ==
    <<Line("Name:               %s \n", CStr(strncpy(e.DIR_Name, 11))),
      Line("Attribute:          %#x\n", <<e.DIR_Attr>>),
      Line("FirstClusterHigh:   %u \n", <<e.DIR_FirstClusterHigh>>),
      Line("FirstClusterLow:    %u \n", <<e.DIR_FirstClusterLow>>),
      Line("FileSize:           %u \n", <<e.DIR_FileSize>>)>>

\* Lines 634..638 and stat (lines 262..286).
Stat(line) ==
    /\ pc = "prompt"
    /\ Branch(line, fp) = "stat"
    /\ IF token(line, 1) = NULL
       THEN Prints(line, <<Line(MsgFilenameNotGiven, <<>>)>>)
       ELSE \E entry \in FindOutcomes(token(line, 1), dir) :
              IF entry = SEGV THEN Crashes(line)
              ELSE IF entry = -1 THEN Prints(line, <<Line(MsgFileNotFound, <<>>)>>)
              ELSE Prints(line, statLines(dir[entry + 1]))

\* ls (lines 293..318): one printf( "%s \n" ) per entry that is listed.
ls(d) ==
    LET shown == {i \in 1..16 : Listable(d[i]) /\ strncpy(d[i].DIR_Name, 11)[1] # 229}
        F[i \in 0..16] ==
            IF i = 0 THEN <<>>
            ELSE IF i \in shown
                 THEN Append(F[i - 1], Line("%s \n", CStr(strncpy(d[i].DIR_Name, 11))))
                 ELSE F[i - 1]
    IN  F[16]

\* Lines 658..661.
Ls(line) ==
    /\ pc = "prompt"
    /\ Branch(line, fp) = "ls"
    /\ Prints(line, ls(dir))

\* A directory test by the bit 0x10.
NotADirectory_m(e) == (e.DIR_Attr \div 16) % 2 = 0

\* cd, lines 341..342: the entry is no directory.
NotADirectory(e) == e.DIR_Attr # 16

\* A cluster number made of both halves.
cdCluster_m(e, f32) ==
    LET cluster == e.DIR_FirstClusterHigh * 65536 + e.DIR_FirstClusterLow
    IN  IF cluster = 0 THEN f32.BPB_RootClus ELSE cluster

\* cd, lines 348..353: the cluster of the directory, 0 going to the root.
cdCluster(e, f32) ==
    IF e.DIR_FirstClusterLow = 0 THEN f32.BPB_RootClus ELSE e.DIR_FirstClusterLow

\* Lines 650..654 and cd (lines 325..359).
Cd(line) ==
    /\ pc = "prompt"
    /\ Branch(line, fp) = "cd"
    /\ IF token(line, 1) = NULL
       THEN Prints(line, <<Line(MsgFilenameNotGiven, <<>>)>>)
       ELSE \E entry \in FindOutcomes(token(line, 1), dir) :
              IF entry = SEGV THEN Crashes(line)
              ELSE IF entry = -1 THEN Prints(line, <<Line(MsgFileNotFound, <<>>)>>)
              ELSE IF NotADirectory(dir[entry + 1])
                   THEN Prints(line, <<Line(MsgNotADirectory, <<>>)>>)
              ELSE LET offset == LBAToOffset(cdCluster(dir[entry + 1], fat32), fat32)
                   IN  /\ dir' = ReadDir(disk[fp], offset, dir)
                       /\ cmd' = line
                       /\ out' = <<>>
                       /\ io' = <<IoRead(offset, 512)>>
                       /\ prevDir' = dir
                       /\ host' = <<>>
                       /\ UNCHANGED <<fp, fat32, disk, streams, pc, exitStatus>>

\* The whole name overwritten with b.
SetFirstByte_m(d, i, b) == [d EXCEPT ![i + 1].DIR_Name = [j \in 1..11 |-> b]]

\* An assignment that is lost.
SetFirstByte_skip(d, i, b) == d

\* dir[ i ].DIR_Name[ 0 ] = b.
SetFirstByte(d, i, b) == [d EXCEPT ![i + 1].DIR_Name[1] = b]

\* Lines 672..676 and del (lines 366..390).
Del(line) ==
    /\ pc = "prompt"
    /\ Branch(line, fp) = "del"
    /\ IF token(line, 1) = NULL
       THEN Prints(line, <<Line(MsgFilenameNotGiven, <<>>)>>)
       ELSE \E entry \in FindOutcomes(token(line, 1), dir) :
              IF entry = SEGV THEN Crashes(line)
              ELSE IF entry = -1 THEN Prints(line, <<Line(MsgFileNotFound, <<>>)>>)
              ELSE LET d == SetFirstByte(dir, entry, 229)
                   IN  /\ dir' = d
                       /\ disk' = [disk EXCEPT ![fp] = WriteDir(@, rootOffset(fat32), d)]
                       /\ cmd' = line
                       /\ out' = <<>>
                       /\ io' = <<IoWrite(rootOffset(fat32), 512)>>
                       /\ prevDir' = dir
                       /\ host' = <<>>
                       /\ UNCHANGED <<fp, fat32, streams, pc, exitStatus>>

\* The slots undel can restore for a name: those the loop of lines 404..421
\* does not skip and whose originalFilenames slot the name matches.  SEGV
\* when the first comparison kills the process.
UndelOutcomes(filename, d, f32) ==
    LET live == {i \in 0..15 : Listable(d[i + 1])}
    IN  IF live = {} THEN {{}}
        ELSE IF InputOverruns(filename) THEN {{SEGV}} \cup SUBSET live
        ELSE IF DerefsNull(filename) THEN {{SEGV}}
        ELSE {{i \in live : compare_filename(filename, f32.originalFilenames[i])}}

\* A loop that stops at the first slot it restores.
Restore_m(d, hits, f32) ==
    [k \in 1..16 |->
        IF (k - 1) \in hits /\ \A i \in hits : k - 1 <= i
        THEN [d[k] EXCEPT !.DIR_Name[1] = f32.originalFilenames[k - 1][1]]
        ELSE d[k]]

\* The cache after lines 409..412 have run for every slot of hits.
Restore(d, hits, f32) ==
    [k \in 1..16 |->
        IF (k - 1) \in hits
        THEN [d[k] EXCEPT !.DIR_Name[1] = f32.originalFilenames[k - 1][1]]
        ELSE d[k]]

\* Lines 679..683 and undel (lines 397..428): every match rewrites the
\* sector at the root offset.
Undel(line) ==
    /\ pc = "prompt"
    /\ Branch(line, fp) = "undel"
    /\ IF token(line, 1) = NULL
       THEN Prints(line, <<Line(MsgFilenameNotGiven, <<>>)>>)
       ELSE \E hits \in UndelOutcomes(token(line, 1), dir, fat32) :
              IF hits = {SEGV} THEN Crashes(line)
              ELSE IF hits = {} THEN Prints(line, <<Line(MsgFileNotFound, <<>>)>>)
              ELSE LET d == Restore(dir, hits, fat32)
                   IN  /\ dir' = d
                       /\ disk' = [disk EXCEPT ![fp] = WriteDir(@, rootOffset(fat32), d)]
                       /\ cmd' = line
                       /\ out' = <<>>
                       /\ io' = [k \in 1..Cardinality(hits) |-> IoWrite(rootOffset(fat32), 512)]
                       /\ prevDir' = dir
                       /\ host' = <<>>
                       /\ UNCHANGED <<fp, fat32, streams, pc, exitStatus>>

\* ------------------------------------------------------------------------
\* The bytes of an image file.

\* Byte k (0..n-1) of the little-endian number v.
LEByte(v, k) == (v \div (256 ^ k)) % 256

\* Byte k (0..31) of a packed struct DirectoryEntry.
EntryByte(e, k) ==
    IF k < 11 THEN e.DIR_Name[k + 1]
    ELSE IF k = 11 THEN e.DIR_Attr
    ELSE IF k < 20 THEN e.Unused1[k - 11]
    ELSE IF k < 22 THEN LEByte(e.DIR_FirstClusterHigh, k - 20)
    ELSE IF k < 26 THEN e.Unused2[k - 21]
    ELSE IF k < 28 THEN LEByte(e.DIR_FirstClusterLow, k - 26)
    ELSE LEByte(e.DIR_FileSize, k - 28)

\* The boot sector holds the BPB fields at the offsets openFat32File reads
\* them from (lines 119..144) and zero elsewhere, as do the other reserved
\* sectors.
BootByte(img, off) ==
    IF off \in 11..12 THEN LEByte(img.BPB_BytsPerSec, off - 11)
    ELSE IF off = 13 THEN img.BPB_SecPerClus
    ELSE IF off \in 14..15 THEN LEByte(img.BPB_RsvdSecCnt, off - 14)
    ELSE IF off = 16 THEN img.BPB_NumFATS
    ELSE IF off \in 17..18 THEN LEByte(img.BPB_RootEntCnt, off - 17)
    ELSE IF off \in 36..39 THEN LEByte(img.BPB_FATSz32, off - 36)
    ELSE IF off \in 44..47 THEN LEByte(img.BPB_RootClus, off - 44)
    ELSE 0

FileSize(img) == DataStart(img) + (img.lastCluster - 1) * img.BPB_BytsPerSec

\* The byte at offset off, 0 <= off < FileSize(img): reserved sectors, then
\* the copies of the FAT, then the data region.
ByteAt(img, off) ==
    LET S      == img.BPB_BytsPerSec
        fat0   == img.BPB_RsvdSecCnt * S
    IN  IF off < fat0 THEN BootByte(img, off)
        ELSE IF off < DataStart(img)
             THEN LET rel == (off - fat0) % (img.BPB_FATSz32 * S)
                      c   == rel \div 4
                  IN  IF c \in DOMAIN img.fat THEN LEByte(img.fat[c], rel % 4) ELSE 0
        ELSE LET rel == off - DataStart(img)
                 sec == Sector(img, (rel \div S) + 2)
             IN  EntryByte(sec[((rel % S) \div 32) + 1], rel % 32)

\* fread( buf, n, 1, fp ) with the stream at pos: buf afterwards.  The bytes
\* the file has are stored, the rest of buf keeps what it held.
FreadInto(img, pos, n, buf) ==
    [k \in 1..Len(buf) |->
        IF k <= n /\ pos >= 0 /\ pos + k - 1 < FileSize(img)
        THEN ByteAt(img, pos + k - 1) ELSE buf[k]]

\* fseek( fp, off, SEEK_SET ): the position afterwards; a negative offset
\* fails and leaves the stream where it is.
Fseek(pos, off) == IF off < 0 THEN pos ELSE off

\* NextLB (lines 92..99).  FATAddress is unsigned: a negative sector wraps
\* it around 2^32, far behind the end of any image, unless the sum is still
\* positive modulo 2^32.  val is what fread stored over g, the bytes that
\* val happened to hold.
\* A FATAddress for FAT entries of 16 bits.
FATAddress_m(sector, f32) == (f32.BPB_BytsPerSec * f32.BPB_RsvdSecCnt) + (sector * 2)

FATAddress(sector, f32) == (f32.BPB_BytsPerSec * f32.BPB_RsvdSecCnt) + (sector * 4)

\* A NextLB whose val is a uint16_t.
NextLB_m(sector, f32, img, g) ==
    LET a   == FATAddress(sector, f32)
        buf == IF a < 0 THEN <<g, g>> ELSE FreadInto(img, a, 2, <<g, g>>)
    IN  buf[1] + 256 * buf[2]

NextLB(sector, f32, img, g) ==
    LET a   == FATAddress(sector, f32)
        buf == IF a < 0 THEN <<g, g>> ELSE FreadInto(img, a, 2, <<g, g>>)
    IN  Signed(buf[1] + 256 * buf[2], 16)

\* The position of the stream when NextLB returns.
NextLBPos(sector, f32, img) ==
    LET a == FATAddress(sector, f32)
    IN  IF a < 0 \/ a >= FileSize(img) THEN a
        ELSE IF a + 2 <= FileSize(img) THEN a + 2 ELSE FileSize(img)

IoCall(name, arg, result) == [op |-> name, off |-> arg, n |-> result]

\* The stream position after fread of n bytes at pos.
AfterRead(img, pos, n) ==
    IF pos < 0 \/ pos >= FileSize(img) THEN pos
    ELSE IF pos + n <= FileSize(img) THEN pos + n ELSE FileSize(img)

\* get, lines 457..465: the loop, from the state st = [working_size,
\* nextSector, data, pos, file, log], file being the bytes written to
\* localfp so far.
RECURSIVE getLoop(_, _, _, _)
getLoop(st, f32, img, g) ==
    LET S == f32.BPB_BytsPerSec
    IN  IF st.working_size > S
        THEN LET off  == LBAToOffset(st.nextSector, f32)
                 at   == Fseek(st.pos, off)
                 data == FreadInto(img, at, S, st.data)
                 next == NextLB(st.nextSector, f32, img, g)
             IN  getLoop([working_size |-> st.working_size - S,
                          nextSector   |-> next,
                          data         |-> data,
                          pos          |-> NextLBPos(st.nextSector, f32, img),
                          file         |-> st.file \o data,
                          log          |-> st.log \o
                              <<IoCall("LBAToOffset", st.nextSector, off),
                                IoRead(at, S),
                                IoCall("NextLB", st.nextSector, next)>>],
                         f32, img, g)
        ELSE st

\* get, lines 451..471, for the entry e: the bytes of the host file and the
\* calls made.  data[] starts as the bytes g; the stream position before the
\* first fseek does not matter, LBAToOffset of a cluster that is not
\* negative being no negative offset in these images.
get(e, f32, img, g) ==
    LET S    == f32.BPB_BytsPerSec
        st   == getLoop([working_size |-> e.DIR_FileSize,
                         nextSector   |-> e.DIR_FirstClusterLow,
                         data         |-> [k \in 1..S |-> g],
                         pos          |-> 0,
                         file         |-> <<>>,
                         log          |-> <<>>], f32, img, g)
        off  == LBAToOffset(st.nextSector, f32)
        at   == Fseek(st.pos, off)
        data == FreadInto(img, at, st.working_size, st.data)
    IN  [file |-> st.file \o SubSeq(data, 1, st.working_size),
         log  |-> st.log \o <<IoCall("LBAToOffset", st.nextSector, off),
                              IoRead(at, st.working_size)>>]

\* A get that returns without fclose( localfp ).
getStreams_m(strs, localfp) == strs \cup {localfp}

\* get, lines 452 and 471: localfp is opened, and closed before get returns.
getStreams(strs, localfp) == fclose(strs \cup {localfp}, localfp)

\* Lines 642..646 and get (lines 435..473).
Get(line) ==
    /\ pc = "prompt"
    /\ Branch(line, fp) = "get"
    /\ IF token(line, 1) = NULL
       THEN Prints(line, <<Line(MsgFilenameNotGiven, <<>>)>>)
       ELSE \E entry \in FindOutcomes(token(line, 1), dir) :
              IF entry = SEGV THEN Crashes(line)
              ELSE IF entry = -1 THEN Prints(line, <<Line(MsgFileNotFound, <<>>)>>)
              ELSE \E g \in {0, 85} :
                   LET r == get(dir[entry + 1], fat32, disk[fp], g)
                   IN  /\ host' = (token(line, 1) :> r.file)
                       /\ streams' = getStreams(streams, token(line, 1))
                       /\ cmd' = line
                       /\ out' = <<>>
                       /\ io' = r.log
                       /\ prevDir' = dir
                       /\ UNCHANGED <<fp, fat32, dir, disk, pc, exitStatus>>

\* atoi: an optional sign, then the digits up to the first byte that is none.
RECURSIVE atoiDigits(_, _, _)
atoiDigits(str, i, acc) ==
    IF i <= Len(str) /\ str[i] >= 48 /\ str[i] <= 57
    THEN atoiDigits(str, i + 1, acc * 10 + (str[i] - 48))
    ELSE acc

atoi(str) ==
    IF str # <<>> /\ str[1] = 45 THEN 0 - atoiDigits(str, 2, 0)
    ELSE IF str # <<>> /\ str[1] = 43 THEN atoiDigits(str, 2, 0)
    ELSE atoiDigits(str, 1, 0)

\* A skip that takes the position modulo the sector size and stays in the
\* first cluster.
readSkip_m(st, f32, img, g) ==
    [st EXCEPT !.position_int = st.position_int % f32.BPB_BytsPerSec]

\* read_file, lines 500..504: the sectors skipped, from the state st =
\* [position_int, nextSector, pos, log].
RECURSIVE readSkip(_, _, _, _)
readSkip(st, f32, img, g) ==
    IF st.position_int >= f32.BPB_BytsPerSec
    THEN LET next == NextLB(st.nextSector, f32, img, g)
         IN  readSkip([position_int |-> st.position_int - f32.BPB_BytsPerSec,
                       nextSector   |-> next,
                       pos          |-> NextLBPos(st.nextSector, f32, img),
                       log          |-> Append(st.log, IoCall("NextLB", st.nextSector, next))],
                      f32, img, g)
    ELSE st

\* read_file, lines 509..522: the bytes printed, from the state st =
\* [i, position_int, sector_index, nextSector, data, pos, printed, log].
RECURSIVE readLoop(_, _, _, _, _)
readLoop(st, working_size, f32, img, g) ==
    IF st.i < working_size
    THEN LET cross == st.position_int + st.sector_index = f32.BPB_BytsPerSec
             next  == IF cross THEN NextLB(st.nextSector, f32, img, g) ELSE st.nextSector
             off   == LBAToOffset(next, f32)
             at    == IF cross THEN Fseek(NextLBPos(st.nextSector, f32, img), off) ELSE st.pos
             data  == FreadInto(img, at, 1, <<st.data>>)[1]
         IN  readLoop([i            |-> st.i + 1,
                       position_int |-> IF cross THEN 0 ELSE st.position_int,
                       sector_index |-> IF cross THEN 1 ELSE st.sector_index + 1,
                       nextSector   |-> next,
                       data         |-> data,
                       pos          |-> AfterRead(img, at, 1),
                       printed      |-> Append(st.printed, data),
                       log          |-> st.log \o
                           (IF cross THEN <<IoCall("NextLB", st.nextSector, next),
                                            IoCall("LBAToOffset", next, off)>>
                            ELSE <<>>) \o <<IoRead(at, 1)>>],
                      working_size, f32, img, g)
    ELSE st

\* read_file, lines 497..523, for the entry e: the bytes printed and the
\* calls made.  data starts as the byte g.
read_file(e, position, num_bytes, f32, img, g) ==
    LET sk  == readSkip([position_int |-> atoi(position),
                         nextSector   |-> e.DIR_FirstClusterLow,
                         pos          |-> 0,
                         log          |-> <<>>], f32, img, g)
        off == LBAToOffset(sk.nextSector, f32) + sk.position_int
        st  == readLoop([i            |-> 0,
                         position_int |-> sk.position_int,
                         sector_index |-> 0,
                         nextSector   |-> sk.nextSector,
                         data         |-> g,
                         pos          |-> Fseek(sk.pos, off),
                         printed      |-> <<>>,
                         log          |-> Append(sk.log,
                             IoCall("LBAToOffset", sk.nextSector, off - sk.position_int))],
                        atoi(num_bytes), f32, img, g)
    IN  [printed |-> st.printed, log |-> st.log]

\* Lines 665..669 and read_file (lines 480..525).  atoi( NULL ) and
\* strlen( NULL ) kill the process.
Read(line) ==
    /\ pc = "prompt"
    /\ Branch(line, fp) = "read"
    /\ IF token_count(line) - 1 < 4
       THEN Prints(line, <<Line(MsgNotEnoughArgs, <<token_count(line)>>)>>)
       ELSE IF token(line, 3) = NULL \/ token(line, 2) = NULL THEN Crashes(line)
       ELSE \E entry \in FindOutcomes(token(line, 1), dir) :
              IF entry = SEGV THEN Crashes(line)
              ELSE IF entry = -1 THEN Prints(line, <<Line(MsgFileNotFound, <<>>)>>)
              ELSE \E g \in {0, 85} :
                   LET r == read_file(dir[entry + 1], token(line, 2), token(line, 3),
                                      fat32, disk[fp], g)
                   IN  /\ cmd' = line
                       /\ out' = [k \in 1..Len(r.printed) |-> Line("%c", <<r.printed[k]>>)]
                                    \o <<Line("\n", <<>>)>>
                       /\ io' = r.log
                       /\ prevDir' = dir
                       /\ host' = <<>>
                       /\ UNCHANGED <<fp, fat32, dir, disk, streams, pc, exitStatus>>

\* ------------------------------------------------------------------------
\* The command lines the user types.  A line is its fields; the last, empty
\* field is what strsep finds behind the newline.

\* Names: "foo.txt", "bar.c", "subdir", "abcdefghij", "..", "nosuch", ".",
\* "inner.txt", "readme.txt", "abcdefgh.txt" of 12 bytes, "mixed", "rodir",
\* "ro.bin" and "volume".
N_foo      == <<102, 111, 111, 46, 116, 120, 116>>
N_bar      == <<98, 97, 114, 46, 99>>
N_subdir   == <<115, 117, 98, 100, 105, 114>>
N_spill    == <<97, 98, 99, 100, 101, 102, 103, 104, 105, 106>>
N_dotdot   == <<46, 46>>
N_nosuch   == <<110, 111, 115, 117, 99, 104>>
N_dot      == <<46>>
N_inner    == <<105, 110, 110, 101, 114, 46, 116, 120, 116>>
N_readme   == <<114, 101, 97, 100, 109, 101, 46, 116, 120, 116>>
N_long     == <<97, 98, 99, 100, 101, 102, 103, 104, 46, 116, 120, 116>>
N_mixed    == <<109, 105, 120, 101, 100>>
N_rodir    == <<114, 111, 100, 105, 114>>
N_ro       == <<114, 111, 46, 98, 105, 110>>
N_volume   == <<118, 111, 108, 117, 109, 101>>

\* Numbers: "0", "4", "510", "1020".
A_0    == <<48>>
A_4    == <<52>>
A_510  == <<53, 49, 48>>
A_1020 == <<49, 48, 50, 48>>

\* Words that are no verb: "foo", "OPEN", "lsx"; and an argument "now".
W_foo  == <<102, 111, 111>>
W_OPEN == <<79, 80, 69, 78>>
W_lsx  == <<108, 115, 120>>
W_now  == <<110, 111, 119>>

\* The names given to stat, to cd, and to del and undel.
StatNames == {N_foo, N_bar, N_spill, N_dotdot, N_nosuch, N_dot, N_long, N_readme}
CdNames   == {N_foo, N_subdir, N_dotdot, N_nosuch, N_mixed, N_rodir, N_ro, N_volume}
MutNames  == {N_foo, N_subdir, N_inner, N_nosuch}
GetNames  == {N_foo, N_spill, N_nosuch}

Verbs == {V_open, V_close, V_quit, V_exit, V_info, V_stat, V_ls, V_cd, V_get,
          V_read, V_del, V_undel}

Lines ==
    \* a blank line, and a verb behind a leading space
    {<<NULL, NULL>>, <<NULL, V_ls, NULL>>}
    \* every verb and every other word alone, and with an argument
    \cup {<<v, NULL>> : v \in Verbs \cup {W_foo, W_OPEN}}
    \cup {<<v, W_now, NULL>> : v \in {V_close, V_quit, V_ls, W_lsx}}
    \cup {<<V_open, p, NULL>> : p \in {P_fat32, P_alt, P_missing}}
    \cup {<<V_stat, n, NULL>> : n \in StatNames}
    \cup {<<V_cd, n, NULL>> : n \in CdNames}
    \cup {<<v, n, NULL>> : v \in {V_del, V_undel}, n \in MutNames}
    \cup {<<V_get, n, NULL>> : n \in GetNames}
    \cup {<<V_read, N_foo, A_0, A_4, NULL>>, <<V_read, N_foo, A_510, A_4, NULL>>,
          <<V_read, N_foo, A_1020, A_4, NULL>>, <<V_read, N_spill, A_0, A_4, NULL>>,
          <<V_read, N_nosuch, A_0, A_4, NULL>>, <<V_read, N_foo, A_0, NULL>>,
          \* "read foo.txt 0 " with a space before the newline
          <<V_read, N_foo, A_0, NULL, NULL>>}
    \* two spaces between the verb and the name
    \cup {<<V_stat, NULL, N_foo, NULL>>}

Init ==
    /\ fp = NULL
    /\ \E b \in {0, 85} : fat32 = GarbageF32(b) /\ dir = GarbageDir(b)
    /\ disk = InitialDisk
    /\ host = <<>>
    /\ streams = {}
    /\ pc = "prompt"
    /\ exitStatus = -1
    /\ cmd = <<>>
    /\ out = <<>>
    /\ io = <<>>
    /\ prevDir = dir

Next ==
    \E line \in Lines :
        \/ Blank(line)
        \/ Open(line)
        \/ Close(line)
        \/ Quit(line)
        \/ MustOpenFirst(line)
        \/ Info(line)
        \/ Stat(line)
        \/ Get(line)
        \/ Ls(line)
        \/ Cd(line)
        \/ Read(line)
        \/ Del(line)
        \/ Undel(line)
        \/ Unknown(line)

Spec == Init /\ [][Next]_vars

\* ------------------------------------------------------------------------
\* LBAToOffset and NextLB on their own, over a range of geometries: images
\* of 512 or 4096 bytes per sector, 1, 2 or 8 sectors per cluster, 1 or 32
\* reserved sectors, 1 or 2 FATs of 1 or 3 sectors, with FAT entries whose
\* halves differ: 0x0FFFFFF8, 0x0FFFFFFF, 0x00008005, 0x00030004,
\* 0x12348000, 3 and 0x00017FFF for the clusters 0..6.
ProbeFat ==
    [c \in 0..6 |->
        <<268435448, 268435455, 32773, 196612, 305430528, 3, 98303>>[c + 1]]

ProbeImages ==
    {[BPB_BytsPerSec |-> s, BPB_SecPerClus |-> c, BPB_RsvdSecCnt |-> r,
      BPB_NumFATS |-> f, BPB_RootEntCnt |-> 0, BPB_FATSz32 |-> z,
      BPB_RootClus |-> 2, fat |-> ProbeFat, lastCluster |-> 6,
      sectors |-> [k \in {2} |-> Block(<<>>)]] :
        s \in {512, 4096}, c \in {1, 2, 8}, r \in {1, 32}, f \in {1, 2}, z \in {1, 3}}

\* The sector arguments: cluster numbers from 0 to 6.
ProbeSectors == 0..6

\* The state after open of one of the images.
InitProbe ==
    /\ fp = P_fat32
    /\ \E img \in ProbeImages :
          /\ disk = (P_fat32 :> img)
          /\ fat32 = [ReadBPB(img, GarbageF32(0)) EXCEPT
                         !.originalFilenames = CaptureNames(Sector(img, 2))]
          /\ dir = Sector(img, 2)
    /\ host = <<>>
    /\ streams = {P_fat32}
    /\ pc = "prompt"
    /\ exitStatus = -1
    /\ cmd = <<>>
    /\ out = <<>>
    /\ io = <<>>
    /\ prevDir = dir

\* LBAToOffset( sector, f32 ), lines 83..86.
CallLBAToOffset(sector) ==
    /\ io' = <<IoCall("LBAToOffset", sector, LBAToOffset(sector, fat32))>>
    /\ host' = <<>>
    /\ out' = <<>>
    /\ UNCHANGED <<fp, fat32, dir, disk, streams, pc, exitStatus, cmd, prevDir>>

\* NextLB( sector, f32, fp ), lines 92..99.
CallNextLB(sector) ==
    /\ \E g \in {0, 85} :
          io' = <<IoCall("NextLB", sector, NextLB(sector, fat32, disk[fp], g))>>
    /\ host' = <<>>
    /\ out' = <<>>
    /\ UNCHANGED <<fp, fat32, dir, disk, streams, pc, exitStatus, cmd, prevDir>>

\* get (lines 451..471) of an entry that starts in sector and is 88 bytes
\* longer than a sector: one turn of the loop, then the tail.  The data
\* region is modelled for sectors of 512 bytes.
CallGet(sector) ==
    /\ fat32.BPB_BytsPerSec = 512
    /\ \E g \in {0, 85} :
          LET e == DirectoryEntry(strncpy(CaptureNames(ImageA.sectors[2])[0], 11), 32,
                                  sector, fat32.BPB_BytsPerSec + 88)
              r == get(e, fat32, disk[fp], g)
          IN  /\ host' = (N_foo :> r.file)
              /\ io' = r.log
    /\ out' = <<>>
    /\ UNCHANGED <<fp, fat32, dir, disk, streams, pc, exitStatus, cmd, prevDir>>

\* read_file (lines 497..523) of four bytes, two before the end of the
\* sector and two behind it.
CallRead(sector) ==
    /\ fat32.BPB_BytsPerSec = 512
    /\ \E g \in {0, 85} :
          LET e == DirectoryEntry(strncpy(CaptureNames(ImageA.sectors[2])[0], 11), 32,
                                  sector, 4)
              r == read_file(e, A_510, A_4, fat32, disk[fp], g)
          IN  /\ out' = [k \in 1..Len(r.printed) |-> Line("%c", <<r.printed[k]>>)]
                            \o <<Line("\n", <<>>)>>
              /\ io' = r.log
    /\ host' = <<>>
    /\ UNCHANGED <<fp, fat32, dir, disk, streams, pc, exitStatus, cmd, prevDir>>

NextProbe ==
    \E sector \in ProbeSectors :
        \/ CallLBAToOffset(sector)
        \/ CallNextLB(sector)
        \/ CallGet(sector)
        \/ CallRead(sector)

SpecProbe == InitProbe /\ [][NextProbe]_vars

\* ------------------------------------------------------------------------
\* Properties.  In a step of Next, cmd' is the line the step has read, out'
\* what it printed, io' its reads and writes of the image; the unprimed
\* variables are the state the line was typed in.

\* The verbs the verb table requires an open image for.
OpenVerbs == {V_close, V_info, V_stat, V_ls, V_cd, V_get, V_read, V_del, V_undel}

Says(msg) == <<Line(msg, <<>>)>>

\* The step leaves the session in the state it was in and touches no image.
SessionKept ==
    /\ io' = <<>>
    /\ host' = <<>>
    /\ UNCHANGED <<fp, fat32, dir, disk, streams, pc, exitStatus>>

\* C1 (as the code has it): in the Closed state a line whose first token is
\* info, stat, ls, cd, get, read, del or undel, with or without arguments,
\* prints "Error: File system image must be opened first.", and one whose
\* first token is close prints "Error: File system not open."; either way
\* the session stays Closed and no image is read or written.
C1_ClosedRejects ==
    [][(fp = NULL /\ token(cmd', 0) \in OpenVerbs) =>
          /\ out' = Says(IF token(cmd', 0) = V_close THEN MsgNotOpen ELSE MsgOpenFirst)
          /\ fp' = NULL
          /\ SessionKept]_vars

\* C1 as the specification states it: in the Closed state every verb of
\* OpenVerbs, close included, prints "Error: File system image must be
\* opened first." and leaves the session Closed without image I/O.
C1_AsStated ==
    [][(fp = NULL /\ token(cmd', 0) \in OpenVerbs) =>
          /\ out' = Says(MsgOpenFirst)
          /\ fp' = NULL
          /\ SessionKept]_vars

\* A session that was open and closed again rejects read with its three
\* arguments.
C1_Witness ==
    /\ fp = NULL
    /\ fat32.BPB_BytsPerSec = 512
    /\ cmd = <<V_read, N_foo, A_0, A_4, NULL>>
    /\ out = Says(MsgOpenFirst)
    /\ disk = InitialDisk

\* The state a failed open leaves.
AfterFailedOpen == token(cmd, 0) = V_open /\ out = Says(MsgImageNotFound)

\* C2: open of a path that cannot be opened, in the Closed state, prints
\* "Error: File system image not found." and the session stays Closed: the
\* handle stays NULL, nothing is loaded, and the next line is treated as in
\* any Closed state, a verb of OpenVerbs being rejected and an open of an
\* existing image accepted.
C2_FailedOpenStaysClosed ==
    [][/\ (fp = NULL /\ token(cmd', 0) = V_open /\ token(cmd', 1) # NULL
             /\ token(cmd', 1) \notin DOMAIN disk) =>
              (out' = Says(MsgImageNotFound) /\ fp' = NULL /\ SessionKept)
       /\ AfterFailedOpen =>
              /\ fp = NULL
              /\ token(cmd', 0) \in OpenVerbs =>
                    (out' \in {Says(MsgOpenFirst), Says(MsgNotOpen)} /\ fp' = NULL)
              /\ (token(cmd', 0) = V_open /\ token(cmd', 1) \in DOMAIN disk) =>
                    (fp' = token(cmd', 1) /\ out' = <<>>)]_vars

\* open missing.img has failed in a session that never had an image open.
C2_Witness ==
    /\ AfterFailedOpen
    /\ cmd = <<V_open, P_missing, NULL>>
    /\ fp = NULL
    /\ dir = GarbageDir(85)
    /\ streams = {}

\* C3: open in the Open state, with whatever path or none, prints "Error:
\* File system image is already open." and changes neither the handle, nor
\* the geometry, the original names, the directory cache or the set of open
\* streams, and reads no image.
C3_OpenWhileOpen ==
    [][(fp # NULL /\ token(cmd', 0) = V_open) =>
          (out' = Says(MsgAlreadyOpen) /\ SessionKept)]_vars

\* With fat32.img open and a subdirectory cached, open of alt.img is refused.
C3_Witness ==
    /\ fp = P_fat32
    /\ cmd = <<V_open, P_alt, NULL>>
    /\ out = Says(MsgAlreadyOpen)
    /\ dir = ImageA.sectors[6]
    /\ streams = {P_fat32}

\* C4: close in the Open state releases the handle and makes the session
\* Closed; from a Closed state only an open of an existing image leads to an
\* Open one, and until then every first token other than open, close, quit
\* and exit is rejected; close in the Closed state prints an error line,
\* releases nothing and leaves the session Closed.
C4_Close ==
    [][/\ (fp # NULL /\ token(cmd', 0) = V_close) =>
              /\ fp' = NULL
              /\ streams' = streams \ {fp}
              /\ out' = <<>>
              /\ UNCHANGED <<fat32, dir, disk, pc>>
       /\ (fp = NULL /\ token(cmd', 0) = V_close) =>
              (out' = Says(MsgNotOpen) /\ fp' = NULL /\ streams' = streams)
       /\ (fp = NULL /\ fp' # NULL) =>
              (token(cmd', 0) = V_open /\ fp' = token(cmd', 1) /\ fp' \in DOMAIN disk)
       /\ (fp = NULL /\ token(cmd', 0) \notin {NULL, V_open, V_close, V_quit, V_exit}) =>
              (out' = Says(MsgOpenFirst) /\ fp' = NULL)]_vars

\* alt.img has been closed: no stream is open, the handle is NULL.
C4_Witness ==
    /\ fp = NULL
    /\ token(cmd, 0) = V_close
    /\ out = <<>>
    /\ streams = {}
    /\ fat32.BPB_RootClus = 3

\* C5 (as the code has it): a line whose first token is not empty and is
\* none of the twelve verbs prints "Error: Unknown command." in the Open
\* state and "Error: File system image must be opened first." in the Closed
\* state; in both it changes no state.
C5_OtherWord ==
    [][(token(cmd', 0) \notin Verbs \cup {NULL}) =>
          /\ out' = Says(IF fp = NULL THEN MsgOpenFirst ELSE MsgUnknown)
          /\ SessionKept]_vars

\* C5 as the specification states it: in every session state such a line
\* prints "Error: Unknown command." and changes no state.
C5_AsStated ==
    [][(token(cmd', 0) \notin Verbs \cup {NULL}) =>
          (out' = Says(MsgUnknown) /\ SessionKept)]_vars

\* "lsx now" typed with fat32.img open.
C5_Witness ==
    /\ fp = P_fat32
    /\ cmd = <<W_lsx, W_now, NULL>>
    /\ out = Says(MsgUnknown)

\* C6: quit and exit, in whatever state the session is after whatever
\* commands, end the program with exit status 0, the image stream closed if
\* one was open; nothing runs after that.
C6_Quit ==
    [][/\ pc = "prompt"
       /\ token(cmd', 0) \in {V_quit, V_exit} =>
              /\ pc' = "exited"
              /\ exitStatus' = 0
              /\ streams' = {}
              /\ fp # NULL => fp \in streams
       /\ pc' = "exited" => token(cmd', 0) \in {V_quit, V_exit}]_vars

\* exit typed with an image open whose root block del has rewritten.
C6_Witness ==
    /\ pc = "exited"
    /\ exitStatus = 0
    /\ token(cmd, 0) = V_exit
    /\ fp = P_fat32
    /\ disk # InitialDisk
    /\ streams = {}

\* The slots of d, lowest first, that satisfy Test.
SlotsOf(d, Test(_)) == SelectSeq([k \in 1..16 |-> k], LAMBDA k : Test(d[k]))

\* What C7 has ls print: the 11 name bytes of the entry, a space, a newline.
C7_Shown(e) == e.DIR_Attr \in {1, 16, 32} /\ e.DIR_Name[1] # 229

C7_Listing(d) ==
    LET slots == SlotsOf(d, C7_Shown)
    IN  [k \in 1..Len(slots) |-> Line("%s \n", d[slots[k]].DIR_Name)]

\* C7: whatever the directory cache holds after open, cd, del and undel, ls
\* prints exactly the entries whose attribute is 0x01, 0x10 or 0x20 and
\* whose first name byte is not 0xE5, in slot order, each as its 11 name
\* bytes; no tombstoned entry and no entry of another attribute is printed.
C7_Ls ==
    [][(fp # NULL /\ token(cmd', 0) = V_ls) =>
          (out' = C7_Listing(dir) /\ SessionKept)]_vars

\* ls of the root of fat32.img after del foo.txt: four of the eight entries
\* in use are printed, the tombstones, the volume label and the hidden file
\* are not.
C7_Witness ==
    /\ fp = P_fat32
    /\ cmd = <<V_ls, NULL>>
    /\ dir[1].DIR_Name[1] = 229 /\ dir[1].DIR_Attr = 32
    /\ dir[7].DIR_Attr = 34
    /\ dir[8].DIR_Name[1] = 229
    /\ Len(out) = 4

\* The state after a successful del X, typed with the cache as open loaded
\* it from the unmodified image, X being an entry that ls listed.
C8_Deleted ==
    /\ fp # NULL
    /\ Len(cmd) = 3 /\ cmd[1] = V_del /\ cmd[2] # NULL
    /\ io # <<>>
    /\ prevDir = Sector(InitialDisk[fp], InitialDisk[fp].BPB_RootClus)
    /\ ~InputOverruns(cmd[2]) /\ ~DerefsNull(cmd[2])
    /\ find_file(cmd[2], prevDir) >= 0
    /\ C7_Shown(prevDir[find_file(cmd[2], prevDir) + 1])

\* C8: for every entry X that ls lists in the directory loaded at open, in
\* whatever slot, undel X after del X gives the cached entry of X its 11
\* name bytes back, so that ls lists X again.
C8_DelUndel ==
    [][(C8_Deleted /\ cmd' = <<V_undel, cmd[2], NULL>>) =>
          LET slot == find_file(cmd[2], prevDir) + 1
          IN  /\ dir'[slot].DIR_Name = prevDir[slot].DIR_Name
              /\ C7_Shown(dir'[slot])]_vars

\* C9: the commands cd, ls, stat, info, read, close and open write no
\* image, and an open that succeeds leaves in the cache the 16 entries the
\* image stores at LBAToOffset(BPB_RootClus), whatever the cache held
\* before; so open, any of those commands, close and open of the same image
\* end with the cache that the first open loaded.
C9_ReopenLoadsRoot ==
    [][/\ token(cmd', 0) \in {V_cd, V_ls, V_stat, V_info, V_read, V_close, V_open} =>
              disk' = disk
       /\ (fp = NULL /\ fp' # NULL) =>
              LET img == disk'[fp']
              IN  /\ LBAToOffset(fat32'.BPB_RootClus, fat32') =
                         DataStart(img) + (img.BPB_RootClus - 2) * img.BPB_BytsPerSec
                  /\ dir' = Sector(img, img.BPB_RootClus)]_vars

\* fat32.img reopened after cd subdir and close: the subdirectory was cached
\* when open was typed, the root is cached now.
C9_Witness ==
    /\ fp = P_fat32
    /\ cmd = <<V_open, P_fat32, NULL>>
    /\ prevDir = ImageA.sectors[6]
    /\ dir = ImageA.sectors[2]
    /\ disk = InitialDisk

\* The normal form C10 states: 11 spaces, over them up to 8 bytes of the
\* text before the first '.' and up to 3 bytes of the text behind it, in
\* upper case.
C10_NormalForm(input) ==
    LET dot  == FindDelim(input, 1)
        base == SubSeq(input, 1, dot - 1)
        ext  == SubSeq(input, dot + 1, Len(input))
    IN  [k \in 1..11 |->
            IF k <= 8 THEN (IF k <= Len(base) THEN toupper(base[k]) ELSE 32)
            ELSE IF k - 8 <= Len(ext) THEN toupper(ext[k - 8]) ELSE 32]

\* C10: for a token that does not begin with "..", the entry a verb
\* resolves is the lowest one whose 11 name bytes equal the normal form of
\* the token, and there is none when no name equals it; stat shows which.
C10_MatchesNormalForm ==
    [][(fp # NULL /\ Len(cmd') = 3 /\ cmd'[1] = V_stat /\ cmd'[2] # NULL
          /\ ~BeginsDotDot(cmd'[2]) /\ ~InputOverruns(cmd'[2]) /\ ~DerefsNull(cmd'[2])) =>
          LET hits == SlotsOf(dir, LAMBDA e : e.DIR_Name = C10_NormalForm(cmd'[2]))
          IN  out' = IF hits = <<>> THEN Says(MsgFileNotFound)
                     ELSE statLines(dir[hits[1]])]_vars

\* A name that compare_filename handles without undefined behaviour.
Comparable(name) == name # NULL /\ ~InputOverruns(name) /\ ~DerefsNull(name)

\* The slots of d, lowest first, whose name the Name Matcher matches.
Matching(name, d) == SlotsOf(d, LAMBDA e : compare_filename(name, e.DIR_Name))

\* The 512 bytes of the cache d are the bytes of img from offset off on.
BytesAt(d, img, off) ==
    \A k \in 0..511 : EntryByte(d[(k \div 32) + 1], k % 32) = ByteAt(img, off + k)

\* C11: cd to a matched entry whose attribute is exactly 0x10 leaves in the
\* cache the 16 x 32 bytes the image holds at LBAToOffset(c), c being the
\* entry's DIR_FirstClusterLow, or BPB_RootClus when that is 0, whatever
\* DIR_FirstClusterHigh is; the image is not written.
C11_CdLoads ==
    [][(fp # NULL /\ token(cmd', 0) = V_cd /\ Comparable(token(cmd', 1))
          /\ Matching(token(cmd', 1), dir) # <<>>
          /\ dir[Matching(token(cmd', 1), dir)[1]].DIR_Attr = 16) =>
          LET e == dir[Matching(token(cmd', 1), dir)[1]]
              c == IF e.DIR_FirstClusterLow = 0 THEN fat32.BPB_RootClus
                   ELSE e.DIR_FirstClusterLow
          IN  /\ BytesAt(dir', disk[fp], LBAToOffset(c, fat32))
              /\ out' = <<>>
              /\ UNCHANGED <<fp, fat32, disk, streams, pc>>]_vars

\* cd subdir from the root of fat32.img: the entry has DIR_FirstClusterHigh
\* 1 and DIR_FirstClusterLow 6, and the cache holds cluster 6.
C11_Witness ==
    /\ fp = P_fat32
    /\ cmd = <<V_cd, N_subdir, NULL>>
    /\ prevDir[3].DIR_FirstClusterHigh = 1
    /\ prevDir[3].DIR_FirstClusterLow = 6
    /\ dir = ImageA.sectors[6]
    /\ dir # prevDir

\* C12: cd to a matched entry whose attribute is anything but exactly 0x10
\* (0x20, 0x01, 0x08, 0x30, 0x11, ...) prints "Error: Entry is not a
\* directory." and changes neither the cache, the image nor the session.
C12_NotADirectory ==
    [][(fp # NULL /\ token(cmd', 0) = V_cd /\ Comparable(token(cmd', 1))
          /\ Matching(token(cmd', 1), dir) # <<>>
          /\ dir[Matching(token(cmd', 1), dir)[1]].DIR_Attr # 16) =>
          (out' = Says(MsgNotADirectory) /\ SessionKept)]_vars

\* cd mixed: the entry is archive and directory at once (0x30).
C12_Witness ==
    /\ fp = P_fat32
    /\ cmd = <<V_cd, N_mixed, NULL>>
    /\ dir[9].DIR_Attr = 48
    /\ out = Says(MsgNotADirectory)

\* The step reads a line of a verb that resolves the name in its second
\* field against the cache: stat, cd, get, del, or read with all its
\* arguments.
LooksUp(line) ==
    \/ token(line, 0) \in {V_stat, V_cd, V_get, V_del}
    \/ /\ token(line, 0) = V_read
       /\ token_count(line) = 5 /\ token(line, 2) # NULL /\ token(line, 3) # NULL

\* The slots undel may restore for a name: attribute 0x01, 0x10 or 0x20 and
\* a matching original name.
Eligible(name, d, f32) ==
    {i \in 0..15 : /\ d[i + 1].DIR_Attr \in {1, 16, 32}
                   /\ compare_filename(name, f32.originalFilenames[i])}

\* C13: when the name given to stat, cd, get, read or del matches no cached
\* entry, or the name given to undel the original name of no eligible
\* entry, the program prints "Error: File not found. " and the cache, the
\* image, the original names and the session are unchanged; get writes no
\* host file.
C13_NotFound ==
    [][(fp # NULL /\ Comparable(token(cmd', 1))
          /\ \/ LooksUp(cmd') /\ Matching(token(cmd', 1), dir) = <<>>
             \/ token(cmd', 0) = V_undel /\ Eligible(token(cmd', 1), dir, fat32) = {}) =>
          (out' = Says(MsgFileNotFound) /\ SessionKept)]_vars

\* get nosuch in a subdirectory: no host file, the cache is kept.
C13_Witness ==
    /\ fp = P_fat32
    /\ cmd = <<V_get, N_nosuch, NULL>>
    /\ out = Says(MsgFileNotFound)
    /\ host = <<>>
    /\ dir = ImageA.sectors[6]
    /\ prevDir = dir

\* nextCluster as C14, C15 and C25 state it: the two bytes of the image at
\* reservedSectorCount * bytesPerSector + 4 * c, little-endian, as a signed
\* 16-bit number.
nextCluster(img, c) ==
    LET a == img.BPB_RsvdSecCnt * img.BPB_BytsPerSec + 4 * c
    IN  Signed(ByteAt(img, a) + 256 * ByteAt(img, a + 1), 16)

\* LBAToOffset(c_0), ..., LBAToOffset(c_(n-1)) of the chain c_0 = c0,
\* c_(k+1) = nextCluster(c_k).
RECURSIVE ChainOffsets(_, _, _, _)
ChainOffsets(img, f32, c0, n) ==
    IF n = 0 THEN <<>>
    ELSE <<LBAToOffset(c0, f32)>> \o ChainOffsets(img, f32, nextCluster(img, c0), n - 1)

\* Byte n (0, 1, ...) of the content whose clusters start at the offsets
\* offs: the byte of the image at LBAToOffset(c_q) + r, q and r being
\* n div S and n mod S.
ContentByte(img, offs, n) ==
    ByteAt(img, offs[(n \div img.BPB_BytsPerSec) + 1] + (n % img.BPB_BytsPerSec))

\* How often the step has called NextLB.
NextLBCalls(log) == Cardinality({k \in DOMAIN log : log[k].op = "NextLB"})

\* C14: get of a matched entry writes one host file, named as the user's
\* token, of exactly DIR_FileSize bytes, byte n being the image byte at
\* LBAToOffset(c_(n div S)) + n mod S along the chain from
\* DIR_FirstClusterLow; NextLB is called max(0, ceil(fileSize / S) - 1)
\* times; the image and the cache are not modified.
C14_Get ==
    [][(fp # NULL /\ token(cmd', 0) = V_get /\ Comparable(token(cmd', 1))
          /\ Matching(token(cmd', 1), dir) # <<>>) =>
          LET e    == dir[Matching(token(cmd', 1), dir)[1]]
              S    == disk[fp].BPB_BytsPerSec
              size == e.DIR_FileSize
              n    == (size + S - 1) \div S
          IN  /\ DOMAIN host' = {token(cmd', 1)}
              /\ \A offs \in {ChainOffsets(disk[fp], fat32, e.DIR_FirstClusterLow, n)} :
                     host'[token(cmd', 1)] =
                         [k \in 1..size |-> ContentByte(disk[fp], offs, k - 1)]
              /\ NextLBCalls(io') = IF n = 0 THEN 0 ELSE n - 1
              /\ out' = <<>>
              /\ UNCHANGED <<fp, fat32, dir, disk, streams, pc>>]_vars

\* get foo.txt: 600 bytes of the clusters 4 and 5, one call of NextLB.
C14_Witness ==
    /\ fp = P_fat32
    /\ cmd = <<V_get, N_foo, NULL>>
    /\ DOMAIN host = {N_foo}
    /\ Len(host[N_foo]) = 600
    /\ NextLBCalls(io) = 1
    /\ IoCall("LBAToOffset", 5, 3584) \in {io[k] : k \in DOMAIN io}

\* The number a string of decimal digits denotes.
RECURSIVE Decimal(_)
Decimal(str) ==
    IF str = <<>> THEN 0
    ELSE 10 * Decimal(SubSeq(str, 1, Len(str) - 1)) + (str[Len(str)] - 48)

IsDecimal(str) == str # <<>> /\ \A k \in DOMAIN str : str[k] \in 48..57

C16_NoCommandFatal ==
    [][token(cmd', 0) \notin {V_quit, V_exit} => pc' = "prompt"]_vars

\* The fields of a line behind the verb that are not empty: its arguments.
Arguments(line) == SelectSeq(Tail(line), LAMBDA f : f # NULL)

\* C17: in the Open state stat, get, cd, del and undel without a name print
\* "Error: Filename not given.", and read with fewer than 3 arguments
\* prints the "Not enough arguments" error; the operation is not run, the
\* cache and the image are unchanged and the session stays Open.
C17_Usage ==
    [][(fp # NULL /\ token(cmd', 0) \in {V_stat, V_get, V_cd, V_del, V_undel, V_read}
          /\ Len(Arguments(cmd')) < (IF token(cmd', 0) = V_read THEN 3 ELSE 1)) =>
          /\ IF token(cmd', 0) = V_read
             THEN out' \in {<<Line(MsgNotEnoughArgs, <<n>>)>> : n \in 0..MAX_NUM_ARGUMENTS}
             ELSE out' = Says(MsgFilenameNotGiven)
          /\ SessionKept]_vars

\* The step is a del or undel of a name that the cache resolves: del finds a
\* matching entry, undel an eligible slot.
Mutates(line, d, f32) ==
    /\ Comparable(token(line, 1))
    /\ IF token(line, 0) = V_del THEN Matching(token(line, 1), d) # <<>>
       ELSE token(line, 0) = V_undel /\ Eligible(token(line, 1), d, f32) # {}

\* C18: after every successful del or undel, whichever directory is cached,
\* the 512 bytes of the image at LBAToOffset( BPB_RootClus ) are the bytes of
\* the 16 cached entries, and no other byte of the image (nor any other
\* image) has changed.
C18_RootBlockRewritten ==
    [][(fp # NULL /\ Mutates(cmd', dir, fat32)) =>
          /\ BytesAt(dir', disk'[fp], LBAToOffset(fat32.BPB_RootClus, fat32))
          /\ FileSize(disk'[fp]) = FileSize(disk[fp])
          /\ [disk'[fp] EXCEPT !.sectors = <<>>] = [disk[fp] EXCEPT !.sectors = <<>>]
          /\ \A c \in 2..disk[fp].lastCluster :
                c # fat32.BPB_RootClus => Sector(disk'[fp], c) = Sector(disk[fp], c)
          /\ \A p \in DOMAIN disk \ {fp} : disk'[p] = disk[p]]_vars

\* del inner.txt with the subdirectory cached: the root block of the image
\* now holds the subdirectory's entries, the subdirectory's own sector is as
\* it was.
C18_Witness ==
    /\ fp = P_fat32
    /\ cmd = <<V_del, N_inner, NULL>>
    /\ prevDir = ImageA.sectors[6]
    /\ dir[3].DIR_Name[1] = 229
    /\ Sector(disk[fp], 2) = dir
    /\ BytesAt(dir, disk[fp], LBAToOffset(2, fat32))
    /\ Sector(disk[fp], 6) = ImageA.sectors[6]

\* C19: a successful del changes one byte of the cache: the first name byte
\* of the lowest-index entry that compare_filename matches becomes 0xE5,
\* whatever the attribute of that entry; every other byte of the 16 entries
\* is as before.
C19_DelOneByte ==
    [][(fp # NULL /\ token(cmd', 0) = V_del /\ Mutates(cmd', dir, fat32)) =>
          LET entry == Matching(token(cmd', 1), dir)[1]
          IN  /\ EntryByte(dir'[entry], 0) = 229
              /\ dir' = [dir EXCEPT ![entry].DIR_Name[1] = 229]]_vars

\* del inner.txt in the subdirectory, where slots 2 and 3 are both named
\* "INNER   TXT" and slot 2 is a hidden archive (0x22): slot 2 is marked,
\* slot 3 is not.
C19_Witness ==
    /\ fp = P_fat32
    /\ cmd = <<V_del, N_inner, NULL>>
    /\ Matching(N_inner, prevDir) = <<3, 4>>
    /\ prevDir[3].DIR_Attr = 34
    /\ dir[3].DIR_Name[1] = 229
    /\ dir[4].DIR_Name[1] = 73

\* C20: undel sets the first name byte of exactly the cached entries i whose
\* attribute is 0x01, 0x10 or 0x20 and whose originalFilenames[ i ] the name
\* matches, to originalFilenames[ i ][ 0 ]; it prints "Error: File not
\* found. " if and only if there is no such entry, and then writes nothing.
C20_Undel ==
    [][(fp # NULL /\ token(cmd', 0) = V_undel /\ Comparable(token(cmd', 1))) =>
          LET hits == Eligible(token(cmd', 1), dir, fat32)
          IN  /\ \A k \in 1..16 :
                    dir'[k] = IF (k - 1) \in hits
                              THEN [dir[k] EXCEPT !.DIR_Name[1] = fat32.originalFilenames[k - 1][1]]
                              ELSE dir[k]
              /\ (out' = Says(MsgFileNotFound)) <=> (hits = {})
              /\ hits # {} => out' = <<>>
              /\ hits = {} => (io' = <<>> /\ disk' = disk)
              /\ pc' = "prompt"]_vars

\* undel foo.txt in the root of fat32.img after del foo.txt: the deleted
\* entries of slots 0 and 7 get their first byte back, the entries of
\* attribute 0x08, 0x22, 0x30 and 0x11 are passed over.
C20_Witness ==
    /\ fp = P_fat32
    /\ cmd = <<V_undel, N_foo, NULL>>
    /\ prevDir[1].DIR_Name[1] = 229 /\ dir[1].DIR_Name[1] = 70
    /\ prevDir[8].DIR_Name[1] = 229 /\ dir[8].DIR_Name[1] = 70
    /\ Eligible(N_foo, prevDir, fat32) = {0, 1, 2, 3, 4, 7}
    /\ out = <<>>

\* C21: in the Open state slot i of originalFilenames holds, for every i in
\* 0..15, the 11-byte name that entry i of the root directory block had when
\* the most recent open read it: a successful open stores those names, and
\* no other command changes them while the session is Open.
C21_OriginalNames ==
    [][IF fp = NULL /\ fp' # NULL
       THEN \A i \in 0..15 :
               fat32'.originalFilenames[i] =
                   Sector(disk[fp'], disk[fp'].BPB_RootClus)[i + 1].DIR_Name
       ELSE (fp # NULL /\ fp' # NULL) =>
               fat32'.originalFilenames = fat32.originalFilenames]_vars

\* C22: cd, get and read treat cluster 0 as the root: a cluster number of 0
\* is replaced by BPB_RootClus before LBAToOffset is applied, so LBAToOffset
\* is never called with 0 and no read is issued at LBAToOffset( 0 ).
C22_ClusterZeroIsRoot ==
    [][(fp # NULL /\ token(cmd', 0) \in {V_cd, V_get, V_read}) =>
          \A k \in DOMAIN io' :
              /\ ~(io'[k].op = "LBAToOffset" /\ io'[k].off = 0)
              /\ ~(io'[k].op = "fread" /\ io'[k].off = LBAToOffset(0, fat32))]_vars

\* The value NextLB returned is an end-of-chain mark: 0xFFF8 or more as an
\* unsigned 16-bit number.
EndOfChain(val) == (val % 65536) >= 65528

\* C23: get and read treat a value of NextLB that is 0xFFF8 or more, taken
\* as unsigned 16-bit, as the end of the chain: after NextLB has returned
\* such a value they neither compute an offset from it nor look up a
\* further FAT entry with it.
C23_EndOfChainNotUsed ==
    [][(fp # NULL /\ token(cmd', 0) \in {V_get, V_read}) =>
          \A k \in DOMAIN io' :
              (io'[k].op = "NextLB" /\ EndOfChain(io'[k].n)) =>
                  \A j \in DOMAIN io' :
                      (j > k /\ io'[j].op \in {"LBAToOffset", "NextLB"}) =>
                          io'[j].off # io'[k].n]_vars

\* Where the data region holds cluster N: behind the reserved sectors and
\* the FATs, clusters of BPB_SecPerClus sectors each, cluster 2 first.
ClusterStart(N, f32) ==
    (f32.BPB_RsvdSecCnt + f32.BPB_NumFATS * f32.BPB_FATSz32
        + (N - 2) * f32.BPB_SecPerClus) * f32.BPB_BytsPerSec

\* C24: for every cluster N >= 2 and every geometry, LBAToOffset( N ) is
\* (N - 2) * S + R * S + F * Z * S; the result does not depend on the
\* sectors per cluster, and it is the first byte of the part of the data
\* region that cluster N occupies.
C24_LBAToOffset ==
    [][\A k \in DOMAIN io' :
          (io'[k].op = "LBAToOffset" /\ io'[k].off >= 2) =>
              LET N == io'[k].off
                  S == fat32.BPB_BytsPerSec
                  R == fat32.BPB_RsvdSecCnt
                  F == fat32.BPB_NumFATS
                  Z == fat32.BPB_FATSz32
              IN  /\ io'[k].n = (N - 2) * S + R * S + F * Z * S
                  /\ io'[k].n = LBAToOffset(N, [fat32 EXCEPT !.BPB_SecPerClus = 1])
                  /\ io'[k].n = ClusterStart(N, fat32)]_vars

\* The two first conjuncts of C24 alone: the sum, and its independence of
\* BPB_SecPerClus.
C24_Sum ==
    [][\A k \in DOMAIN io' :
          (io'[k].op = "LBAToOffset" /\ io'[k].off >= 2) =>
              LET N == io'[k].off
                  S == fat32.BPB_BytsPerSec
              IN  /\ io'[k].n = (N - 2) * S + fat32.BPB_RsvdSecCnt * S
                                  + fat32.BPB_NumFATS * fat32.BPB_FATSz32 * S
                  /\ io'[k].n = LBAToOffset(N, [fat32 EXCEPT !.BPB_SecPerClus = 1])]_vars

\* C25: NextLB( N ) is the two bytes at image offset BPB_RsvdSecCnt *
\* BPB_BytsPerSec + 4 * N, read little-endian and taken as a signed 16-bit
\* two's complement number: the upper two bytes of the 32-bit FAT entry do
\* not affect it, a low half of 0x8000 or more gives a negative number, and
\* get and read use the number, negative or not, as the next cluster: the
\* call that follows has it as its argument.
C25_NextLB ==
    [][\A k \in DOMAIN io' :
          (io'[k].op = "NextLB" /\ io'[k].off \in ProbeSectors) =>
              LET N   == io'[k].off
                  a   == fat32.BPB_RsvdSecCnt * fat32.BPB_BytsPerSec + 4 * N
                  low == ByteAt(disk[fp], a) + 256 * ByteAt(disk[fp], a + 1)
              IN  /\ io'[k].n = IF low >= 32768 THEN low - 65536 ELSE low
                  /\ (low >= 32768) <=> (io'[k].n < 0)
                  /\ \A upper \in {0, 1, 4095} : \A g \in {0, 85} :
                        io'[k].n = NextLB(N, fat32,
                                          [disk[fp] EXCEPT !.fat[N] = (@ % 65536) + 65536 * upper],
                                          g)
                  /\ k < Len(io') =>
                        /\ io'[k + 1].op \in {"LBAToOffset", "NextLB"}
                        /\ io'[k + 1].off = io'[k].n]_vars

\* get of a file that starts in cluster 2, whose FAT entry is 0x00008005:
\* NextLB returns -32763 and get calls LBAToOffset( -32763 ).
C25_Witness ==
    /\ disk[fp].fat[2] = 32773
    /\ N_foo \in DOMAIN host
    /\ \E k \in DOMAIN io :
          /\ io[k] = IoCall("NextLB", 2, -32763)
          /\ k < Len(io)
          /\ io[k + 1] = IoCall("LBAToOffset", -32763, LBAToOffset(-32763, fat32))

\* C26: in every state at most one stream is open; while the program
\* prompts, the image stream is open if and only if the session is Open (fp
\* is not NULL), and it is the stream of fp; after close, and after quit or
\* exit, no stream is open; the host file of get is closed when get returns.
C26_OneHandle ==
    /\ Cardinality(streams) <= 1
    /\ pc = "prompt" => streams = (IF fp = NULL THEN {} ELSE {fp})
    /\ pc = "exited" => streams = {}
    /\ (pc = "prompt" /\ token(cmd, 0) = V_close) => (fp = NULL /\ streams = {})

\* get foo.txt has written its host file and returned: the image is the only
\* stream open.
C26_Witness ==
    /\ pc = "prompt"
    /\ fp = P_fat32
    /\ cmd = <<V_get, N_foo, NULL>>
    /\ N_foo \in DOMAIN host
    /\ streams = {P_fat32}

\* C27: while the session is Open the directory cache equals the 16 entries
\* the image stores at the offset the cache was last loaded from, after any
\* cd, del and undel; a tombstone that del makes in a subdirectory is in
\* that subdirectory's block of the image.  Stated for a del or undel typed
\* right after the open or cd that loaded the cache, whose read is the last
\* of io.
C27_WriteThrough ==
    [][(/\ fp # NULL /\ fp' = fp
        /\ token(cmd, 0) \in {V_open, V_cd}
        /\ io # <<>> /\ io[Len(io)].op = "fread" /\ io[Len(io)].n = 512
        /\ token(cmd', 0) \in {V_del, V_undel}
        /\ Mutates(cmd', dir, fat32)) =>
          BytesAt(dir', disk'[fp], io[Len(io)].off)]_vars

\* C28: undel changes no cached entry that is not a tombstone: every entry
\* whose first name byte is not 0xE5 before the undel has the same 32 bytes
\* after it; and an entry that del has just marked, if the undel restores
\* it, gets back the first byte its own name had before the del.
C28_UndelOnlyTombstones ==
    [][(fp # NULL /\ fp' = fp /\ token(cmd', 0) = V_undel) =>
          /\ \A k \in 1..16 : dir[k].DIR_Name[1] # 229 => dir'[k] = dir[k]
          /\ (token(cmd, 0) = V_del /\ io # <<>> /\ Mutates(cmd, prevDir, fat32)) =>
                LET slot == Matching(token(cmd, 1), prevDir)[1]
                IN  dir'[slot].DIR_Name[1] \in {229, prevDir[slot].DIR_Name[1]}]_vars

\* The image differs from the image the host had at the start at most in
\* the 512-byte block of its root cluster: same length, same boot sector and
\* FATs, same bytes in every other cluster (a cluster that sectors does not
\* hold is DataBlock of its number in both).
OnlyRootBlockDiffers(img, img0) ==
    /\ FileSize(img) = FileSize(img0)
    /\ [img EXCEPT !.sectors = <<>>] = [img0 EXCEPT !.sectors = <<>>]
    /\ DOMAIN img.sectors = DOMAIN img0.sectors
    /\ \A c \in DOMAIN img0.sectors \ {img0.BPB_RootClus} :
          img.sectors[c] = img0.sectors[c]

\* C29: info, stat, ls, cd, get and read write no image: the step of any of
\* them leaves every image as it is and issues no fwrite on the image
\* stream; and after any sequence of commands the boot sector, the FATs and
\* every data cluster but the block at LBAToOffset( BPB_RootClus ) hold
\* their original bytes.  (The host file get writes is taken not to be the
\* image file.)
C29_ImageFrame ==
    [][/\ token(cmd', 0) \in {V_info, V_stat, V_ls, V_cd, V_get, V_read} =>
              /\ disk' = disk
              /\ \A k \in DOMAIN io' : io'[k].op # "fwrite"
       /\ \A p \in DOMAIN InitialDisk :
              p \in DOMAIN disk' /\ OnlyRootBlockDiffers(disk'[p], InitialDisk[p])]_vars

\* read foo.txt after a del has rewritten the root block of fat32.img: the
\* read has written nothing, and the subdirectory's cluster is as it was.
C29_Witness ==
    /\ fp = P_fat32
    /\ cmd = <<V_read, N_foo, A_0, A_4, NULL>>
    /\ Len(out) = 5
    /\ disk[fp].sectors[2] # ImageA.sectors[2]
    /\ Sector(disk[fp], 6) = ImageA.sectors[6]
    /\ disk[P_alt] = ImageB

\* The entries in use (first name byte not 0) have pairwise distinct names.
DistinctNames(d) ==
    \A j, k \in 1..16 :
        (j # k /\ d[j].DIR_Name[1] # 0 /\ d[k].DIR_Name[1] # 0) =>
            d[j].DIR_Name # d[k].DIR_Name

\* C30: after a successful del X in a directory whose entries have pairwise
\* distinct names, X does not resolve in the cache and every other entry is
\* as it was; while X does not resolve, stat, cd, get, read and del of X
\* print "Error: File not found. " and leave the cache alone; and a name
\* that does not resolve stays so through every command but undel, cd, open
\* and close, that is, until an undel restores it or the cache is reloaded.
C30_DeletedNotResolvable ==
    [][fp # NULL =>
          /\ (token(cmd', 0) = V_del /\ Mutates(cmd', dir, fat32) /\ DistinctNames(dir)) =>
                /\ Matching(token(cmd', 1), dir') = <<>>
                /\ \A k \in 1..16 :
                      k # Matching(token(cmd', 1), dir)[1] => dir'[k] = dir[k]
          /\ (LooksUp(cmd') /\ Comparable(token(cmd', 1))
                /\ Matching(token(cmd', 1), dir) = <<>>) =>
                (out' = Says(MsgFileNotFound) /\ dir' = dir)
          /\ (token(cmd', 0) \notin {V_undel, V_cd, V_open, V_close} /\ dir' # dir) =>
                \A X \in GetNames \cup MutNames :
                    (Comparable(X) /\ Matching(X, dir) = <<>>) =>
                        Matching(X, dir') = <<>>]_vars

\* stat foo.txt after del foo.txt in the root of fat32.img, where no two
\* names are the same: File not found, while abcdefghij still resolves.
C30_Witness ==
    /\ fp = P_fat32
    /\ cmd = <<V_stat, N_foo, NULL>>
    /\ out = Says(MsgFileNotFound)
    /\ DistinctNames(ImageA.sectors[2])
    /\ dir = [ImageA.sectors[2] EXCEPT ![1].DIR_Name[1] = 229]
    /\ Matching(N_spill, dir) = <<4>>

\* C31: a tombstone made in the root directory is durable.  A successful
\* del X typed while the cache holds the root block of the image leaves in
\* that block the cached entries with 0xE5 as the first name byte of X's
\* slot and every other entry as before; close writes no image; and an open
\* that succeeds loads that block as it is stored, so that after open, del X,
\* close and open of the same image X's slot is a tombstone, ls does not
\* list it, and all other entries are those from before the del.
C31_TombstoneDurable ==
    [][/\ (/\ fp # NULL /\ token(cmd', 0) = V_del /\ Mutates(cmd', dir, fat32)
           /\ dir = Sector(disk[fp], fat32.BPB_RootClus)) =>
              Sector(disk'[fp], fat32.BPB_RootClus) =
                  [dir EXCEPT ![Matching(token(cmd', 1), dir)[1]].DIR_Name[1] = 229]
       /\ token(cmd', 0) = V_close => disk' = disk
       /\ (fp = NULL /\ fp' # NULL) =>
              /\ disk' = disk
              /\ dir' = Sector(disk[fp'], disk[fp'].BPB_RootClus)
              /\ \A k \in 1..16 :
                    dir'[k].DIR_Name[1] = 229 =>
                        \A n \in DOMAIN ls(dir') :
                            ls(dir')[n] # Line("%s \n", CStr(strncpy(dir'[k].DIR_Name, 11)))]_vars

\* fat32.img reopened after del foo.txt in its root and close: the cache is
\* the original root block but for the tombstone in slot 0, and ls lists
\* four names, FOO     TXT not among them.
C31_Witness ==
    /\ fp = P_fat32
    /\ cmd = <<V_open, P_fat32, NULL>>
    /\ prevDir = dir
    /\ dir = [ImageA.sectors[2] EXCEPT ![1].DIR_Name[1] = 229]
    /\ Sector(disk[fp], 2) = dir
    /\ Len(ls(ImageA.sectors[2])) = 5
    /\ Len(ls(dir)) = 4

====
